---- MODULE Spec2Model ----
(***************************************************************************)
(* The sales dashboard of src/main.py as a state machine.                  *)
(*                                                                         *)
(* The script is re-executed top to bottom on every interaction (upload,   *)
(* removal of the file, change of a widget).  The state is the uploaded    *)
(* table, the value of every widget, and everything the last execution of  *)
(* the script computed and put on the page.  Every action is one           *)
(* interaction followed by the complete re-execution of the script.        *)
(*                                                                         *)
(* Numbers.  pandas reads total_sales ("12.34") as float64 and             *)
(* net_quantity as int64.  float64 values are modelled exactly: the value  *)
(* x is the integer x * 2^60 written in base 2^LimbBits, least             *)
(* significant limb first, in NumLimbs limbs.  Every float64 operation is  *)
(* the exact operation followed by rounding to 53 significant bits, ties   *)
(* to even.  The values of the model are zero or lie in [2^-7, 2^30): all  *)
(* of them are multiples of 2^-60, and none is near the overflow or the    *)
(* subnormal range.                                                        *)
(*                                                                         *)
(* Strings.  Product titles are numbers, standing for strings whose        *)
(* lexicographic order is the order of the numbers; days are numbers       *)
(* yyyymmdd.  Product types and vendors are strings.  total_sales of an    *)
(* uploaded row is the amount in cents: the text "0.10" is 10.             *)
(* A blank cell is the missing value, written 0, which is no title.        *)
(***************************************************************************)
EXTENDS FiniteSets, Integers, Sequences, TLC

(***************************************************************************)
(* float64 arithmetic                                                      *)
(***************************************************************************)

\* significant bits of a float64
Mant == 53

\* bits of a limb, and the limb base 2^LimbBits
LimbBits == 15

Base == 2 ^ LimbBits

\* limbs of a value; the binary point is below limb PointLimb + 1
NumLimbs == 6

PointLimb == 4

\* the tuple of the values of the function f on 1..Len(f), each computed once
AsTuple(f) == SubSeq(f, 1, Len(f))

Zero == AsTuple([i \in 1..NumLimbs |-> 0])

\* an integer (an int64 value, or a Python int) below Base^2 as a value
FromNat(n) ==
    AsTuple([i \in 1..NumLimbs |->
        IF i = PointLimb + 1 THEN n % Base ELSE IF i = PointLimb + 2 THEN n \div Base ELSE 0])

\* addition of two limb sequences of the same length: limb Len(acc) + 1 is
\* next, c is the carry into it (no carry leaves the top limb in the model)
RECURSIVE AddLoop(_, _, _, _)
AddLoop(a, b, c, acc) ==
    LET i == Len(acc) + 1
        s == a[i] + b[i] + c
    IN  IF i > Len(a) THEN acc
        ELSE AddLoop(a, b, s \div Base, Append(acc, s % Base))

\* the exact sum of two values
XAdd(a, b) == AddLoop(a, b, 0, <<>>)

\* a < b, exactly
XLess(a, b) ==
    \E i \in 1..Len(a) : a[i] < b[i] /\ \A j \in (i + 1)..Len(a) : a[j] = b[j]

RECURSIVE BitLen(_)
BitLen(n) == IF n = 0 THEN 0 ELSE 1 + BitLen(n \div 2)

RECURSIVE TopLimb(_, _)
TopLimb(a, i) == IF i = 0 \/ a[i] # 0 THEN i ELSE TopLimb(a, i - 1)

\* the number of bits of the integer a (0 for zero)
Bits(a) ==
    LET t == TopLimb(a, Len(a))
    IN  IF t = 0 THEN 0 ELSE (t - 1) * LimbBits + BitLen(a[t])

\* the integer 2^q as a limb sequence of length n
PowerOfTwo(q, n) ==
    AsTuple([i \in 1..n |-> IF i = q \div LimbBits + 1 THEN 2 ^ (q % LimbBits) ELSE 0])

\* the bits of a below bit q
LowBits(a, q) ==
    AsTuple([i \in 1..Len(a) |->
        IF i < q \div LimbBits + 1 THEN a[i]
        ELSE IF i = q \div LimbBits + 1 THEN a[i] % (2 ^ (q % LimbBits)) ELSE 0])

\* a without the bits low, rounded up when they are more than half of bit q,
\* or half of it and something is below (sticky) or bit q of a is set
RoundAt(a, sticky, q, low, half) ==
    LET kept == AsTuple([i \in 1..Len(a) |-> a[i] - low[i]])
    IN  IF \/ XLess(half, low)
           \/ /\ low = half
              /\ sticky \/ (a[q \div LimbBits + 1] \div (2 ^ (q % LimbBits))) % 2 = 1
        THEN XAdd(kept, PowerOfTwo(q, Len(a)))
        ELSE kept

RoundBelow(a, sticky, q) ==
    IF q <= 0 THEN a ELSE RoundAt(a, sticky, q, LowBits(a, q), PowerOfTwo(q - 1, Len(a)))

\* rounding of an exact value to float64: nearest, ties to even.  sticky
\* says that the exact value is a, plus something below a's last bit.
Round53(a, sticky) == RoundBelow(a, sticky, Bits(a) - Mant)

\* float64 addition
FAdd(a, b) == Round53(XAdd(a, b), FALSE)

\* multiplication by k: limb Len(acc) + 1 is next, c is the carry into it
RECURSIVE MulLoop(_, _, _, _)
MulLoop(a, k, c, acc) ==
    LET i == Len(acc) + 1
        s == a[i] * k + c
    IN  IF i > Len(a) THEN acc
        ELSE MulLoop(a, k, s \div Base, Append(acc, s % Base))

\* float64 multiplication of a float64 by a small integer
FMul(a, k) == Round53(MulLoop(a, k, 0, <<>>), FALSE)

\* long division of a limb sequence by d, from the top limb down: r is the
\* remainder so far; the result is <<quotient, remainder>>
RECURSIVE DivLoop(_, _, _, _)
DivLoop(a, d, r, acc) ==
    LET i == Len(a) - Len(acc)
        cur == r * Base + a[i]
    IN  IF i = 0 THEN <<acc, r>>
        ELSE DivLoop(a, d, cur % d, <<cur \div d>> \o acc)

\* float64 division of the integer s by the integer d (s = 0 or s / d >= 2^-7,
\* d < 2^15): the quotient with one more limb below the last and what is
\* left as the sticky bit, rounded; the rounding clears the added limb
FDiv(s, d) ==
    LET qr == DivLoop(<<0>> \o FromNat(s), d, 0, <<>>)
    IN  Tail(Round53(qr[1], qr[2] # 0))

(***************************************************************************)
(* Helpers on sequences and tables                                         *)
(***************************************************************************)

\* A missing value: the NaN pandas reads from a blank cell, and the None of a
\* select box without options.  It is equal to nothing, itself included.
Missing == 0

\* the elements of a finite set of numbers in ascending order
RECURSIVE Ascending(_)
Ascending(S) ==
    IF S = {} THEN <<>>
    ELSE LET m == CHOOSE x \in S : \A y \in S : x <= y
         IN  <<m>> \o Ascending(S \ {m})

Column(table, col) == AsTuple([i \in 1..Len(table) |-> table[i][col]])

\* the rows of table whose column col holds value, in the order of the table
Rows(table, col, value) ==
    LET idx == Ascending({i \in 1..Len(table) : table[i][col] = value})
    IN  AsTuple([k \in 1..Len(idx) |-> table[idx[k]]])

\* Series.unique(): the distinct values in the order of their first
\* appearance, a missing value among them
Unique(xs) ==
    LET idx == Ascending({i \in 1..Len(xs) : \A j \in 1..(i - 1) : xs[j] # xs[i]})
    IN  AsTuple([k \in 1..Len(idx) |-> xs[idx[k]]])

\* sum of an int64 column
RECURSIVE ISum(_, _)
ISum(xs, n) == IF n = 0 THEN 0 ELSE ISum(xs, n - 1) + xs[n]

\* sum of a float64 column: one float64 addition per element, in the order of
\* the rows, from 0.0.  (A release of pandas that compensates the sum of a
\* group differs from this only for a group of three or more rows.)
RECURSIVE FSum(_, _)
FSum(xs, n) == IF n = 0 THEN Zero ELSE FAdd(FSum(xs, n - 1), xs[n])

ColumnSum(col, xs) == IF col = "net_quantity" THEN ISum(xs, Len(xs)) ELSE FSum(xs, Len(xs))

\* groupby(key)[col].sum().reset_index(): one row per key, in ascending order
\* of the key; groupby drops the rows whose key is missing
GroupSum(table, key, col) ==
    LET ks == Ascending({table[i][key] : i \in 1..Len(table)} \ {Missing})
    IN  AsTuple([k \in 1..Len(ks) |->
            LET sum == ColumnSum(col, Column(Rows(table, key, ks[k]), col))
            IN  (key :> ks[k]) @@ (col :> sum)])

\* comparison of two values of column col: net_quantity is int64, total_sales
\* is float64
ValueLess(col, a, b) == IF col = "net_quantity" THEN a < b ELSE XLess(a, b)

\* The rows of g in descending order of column col.  Rows with equal values
\* stay in the order of g when ties = "first" and come out in the reverse of
\* it when ties = "last".
Descending(g, col, ties) ==
    LET Before(j, i) ==
            \/ ValueLess(col, g[i][col], g[j][col])
            \/ /\ ~ValueLess(col, g[j][col], g[i][col])
               /\ IF ties = "first" THEN j < i ELSE i < j
        place == AsTuple([i \in 1..Len(g) |->
                            1 + Cardinality({j \in 1..Len(g) : Before(j, i)})])
    IN  AsTuple([p \in 1..Len(g) |-> g[CHOOSE i \in 1..Len(g) : place[i] = p]])

\* Series.sort_values(ascending=False): numpy's default sort, which is not
\* stable; how it leaves equal values depends on the build (quicksort_ties)
SortValuesDescending(g, col, quicksort_ties) == Descending(g, col, quicksort_ties)

\* A variant of NLargest without the cut to n rows.
NLargestUncut(g, col, n, quicksort_ties) ==
    IF n >= Len(g) THEN SortValuesDescending(g, col, quicksort_ties)
    ELSE Descending(g, col, "first")

\* A variant of NLargest with keep="last": of equal values the later in the
\* series comes first.
NLargestKeepLast(g, col, n, quicksort_ties) ==
    IF n >= Len(g) THEN SortValuesDescending(g, col, quicksort_ties)
    ELSE SubSeq(Descending(g, col, "last"), 1, n)

\* Series.nlargest(n), keep="first".  With n below the number of rows the n
\* largest are selected with a stable sort, equal values in the order of the
\* series; otherwise pandas returns sort_values(ascending=False).head(n).
NLargest(g, col, n, quicksort_ties) ==
    IF n >= Len(g) THEN SortValuesDescending(g, col, quicksort_ties)
    ELSE SubSeq(Descending(g, col, "first"), 1, n)

(***************************************************************************)
(* The script                                                              *)
(***************************************************************************)

\* uploaded_file is None or <<rows>>, rows being the rows of the CSV file
None == <<>>

\* st.slider("Select how many top products to display", 5, 20, 10)
SliderMin == 5

SliderMax == 20

SliderDefault == 10

\* st.number_input('Enter Stocking Plan for Products', value=100, ...)
PlanDefault == 100

\* sales_data.groupby('product_title')['net_quantity'].sum() / 90
WindowDays == 90

\* mps_data['Sales Velocity (units/day)'] * 30
ForecastDays == 30

\* the text of an amount has two decimals: its digits are divided by 10^2
CentsPerUnit == 100

\* dt.to_period('M').astype(str): the "YYYY-MM" of a day, as the number yyyymm
Month(day) == day \div 100

\* pd.read_csv, the conversion of day and the month column
ReadCsv(rows) ==
    AsTuple([i \in 1..Len(rows) |->
        [day |-> rows[i].day,
         month |-> Month(rows[i].day),
         product_title |-> rows[i].product_title,
         product_type |-> rows[i].product_type,
         product_vendor |-> rows[i].product_vendor,
         net_quantity |-> rows[i].net_quantity,
         total_sales |-> FDiv(rows[i].total_sales, CentsPerUnit)]])

MonthlySales(sales_data) == GroupSum(sales_data, "month", "total_sales")

TopProducts(sales_data, num_top_products, top_products_by, quicksort_ties) ==
    IF top_products_by = "Total Sales"
    THEN NLargest(GroupSum(sales_data, "product_title", "total_sales"),
                  "total_sales", num_top_products, quicksort_ties)
    ELSE NLargest(GroupSum(sales_data, "product_title", "net_quantity"),
                  "net_quantity", num_top_products, quicksort_ties)

\* the options of the three select boxes that depend on the table
ProductTypes(sales_data) == <<"Any">> \o Unique(Column(sales_data, "product_type"))

VendorOptions(sales_data) == <<"Any">> \o Unique(Column(sales_data, "product_vendor"))

ProductOptions(sales_data) == Unique(Column(sales_data, "product_title"))

\* st.selectbox returns the option at the position the user picked (None when
\* there is no option)
Selected(options, index) == IF index \in 1..Len(options) THEN options[index] ELSE Missing

\* A variant of FilterSection that narrows sales_data itself instead of a copy.
FilterSectionInPlace(sales_data, selected_product_type, selected_vendor) ==
    LET by_type == IF selected_product_type # "Any"
                   THEN Rows(sales_data, "product_type", selected_product_type)
                   ELSE sales_data
        by_vendor == IF selected_vendor # "Any"
                     THEN Rows(by_type, "product_vendor", selected_vendor)
                     ELSE by_type
    IN  [sales_data |-> by_vendor, filtered_data |-> by_vendor]

\* The filter: a copy of sales_data is narrowed, sales_data itself stays as
\* it is for the sections that follow.
FilterSection(sales_data, selected_product_type, selected_vendor) ==
    LET by_type == IF selected_product_type # "Any"
                   THEN Rows(sales_data, "product_type", selected_product_type)
                   ELSE sales_data
        by_vendor == IF selected_vendor # "Any"
                     THEN Rows(by_type, "product_vendor", selected_vendor)
                     ELSE by_type
    IN  [sales_data |-> sales_data, filtered_data |-> by_vendor]

ProductSales(filtered_data, quicksort_ties) ==
    SortValuesDescending(GroupSum(filtered_data, "product_title", "total_sales"),
                         "total_sales", quicksort_ties)

\* the rows whose product_title == selected_product, grouped by day: no row
\* when the selected product is a missing value
ProductTrendData(sales_data, selected_product) ==
    GroupSum(IF selected_product = Missing THEN <<>>
             ELSE Rows(sales_data, "product_title", selected_product),
             "day", "net_quantity")

\* sales_data.groupby('product_title')['net_quantity'].sum() / 90: a series
\* that keeps the name net_quantity, one value per product in ascending order
\* of the title
SalesVelocity(sales_data) ==
    LET sums == GroupSum(sales_data, "product_title", "net_quantity")
    IN  AsTuple([k \in 1..Len(sums) |->
            [product_title |-> sums[k].product_title,
             sales_velocity |-> FDiv(sums[k].net_quantity, WindowDays)]])

\* pd.DataFrame(series, columns=[column]): the constructor reads a named
\* series as the dict {name: series} and keeps of it the columns asked for.
\* A column asked for under another name is missing, and a frame made of
\* missing columns only has no index: it has no rows.
SeriesToFrame(series, name, column) == IF name = column THEN series ELSE <<>>

\* the stocking table: the frame of the velocities with the plan, the
\* predicted demand and the status of each of its rows
MpsData(sales_data, stocking_plan) ==
    LET frame == SeriesToFrame(SalesVelocity(sales_data), "net_quantity",
                               "Sales Velocity (units/day)")
    IN  AsTuple([k \in 1..Len(frame) |->
            LET demand == FMul(frame[k].sales_velocity, ForecastDays)
            IN  [product_title |-> frame[k].product_title,
                 sales_velocity |-> frame[k].sales_velocity,
                 stocking_plan |-> stocking_plan,
                 predicted_monthly_demand |-> demand,
                 status |-> IF XLess(FromNat(stocking_plan), demand)
                            THEN "Understocked" ELSE "Well-stocked"]])

\* what the script puts on the page, in order
NoFilePage == <<"title", "description", "file_uploader", "upload_prompt">>

\* A variant of Page that draws the chart of the sales by product without
\* looking whether there is anything to draw.
PageAlwaysChart(product_sales, product_trend_data) ==
    <<"title", "description", "file_uploader",
      "fig_monthly_sales", "num_top_products", "top_products_by", "fig_top_products",
      "selected_product_type", "selected_vendor", "filtered_data",
      "fig_product_sales",
      "selected_product",
      IF product_trend_data # <<>> THEN "fig_sales_trend" ELSE "no_trend_message",
      "stocking_plan", "mps_data">>

Page(product_sales, product_trend_data) ==
    <<"title", "description", "file_uploader",
      "fig_monthly_sales", "num_top_products", "top_products_by", "fig_top_products",
      "selected_product_type", "selected_vendor", "filtered_data",
      IF product_sales # <<>> THEN "fig_product_sales" ELSE "no_sales_message",
      "selected_product",
      IF product_trend_data # <<>> THEN "fig_sales_trend" ELSE "no_trend_message",
      "stocking_plan", "mps_data">>

\* The branch of the script for an uploaded file: the variables it leaves and
\* the page.
Dashboard(file, w, quicksort_ties) ==
         LET loaded == ReadCsv(file[1])
             selected_product_type == Selected(ProductTypes(loaded), w.type_index)
             selected_vendor == Selected(VendorOptions(loaded), w.vendor_index)
             f == FilterSection(loaded, selected_product_type, selected_vendor)
             sales_data == f.sales_data
             product_sales == ProductSales(f.filtered_data, quicksort_ties)
             selected_product == Selected(ProductOptions(sales_data), w.product_index)
             product_trend_data == ProductTrendData(sales_data, selected_product)
         IN  [sales_data |-> sales_data,
              monthly_sales |-> MonthlySales(loaded),
              top_products |-> TopProducts(loaded, w.num_top_products, w.top_products_by,
                                           quicksort_ties),
              product_types |-> ProductTypes(loaded),
              vendors |-> VendorOptions(loaded),
              selected_product_type |-> selected_product_type,
              selected_vendor |-> selected_vendor,
              filtered_data |-> f.filtered_data,
              product_sales |-> product_sales,
              products |-> ProductOptions(sales_data),
              selected_product |-> selected_product,
              product_trend_data |-> product_trend_data,
              mps_data |-> MpsData(sales_data, w.stocking_plan),
              shown |-> Page(product_sales, product_trend_data)]

\* A variant of Script whose else branch writes nothing.
ScriptWithoutPrompt(file, w, quicksort_ties) ==
    IF file = None THEN [shown |-> SubSeq(NoFilePage, 1, Len(NoFilePage) - 1)]
    ELSE Dashboard(file, w, quicksort_ties)

\* One execution of the script: file is the uploader's value, w the value of
\* every widget.
Script(file, w, quicksort_ties) ==
    IF file = None THEN [shown |-> NoFilePage]
    ELSE Dashboard(file, w, quicksort_ties)

(***************************************************************************)
(* Inputs                                                                  *)
(***************************************************************************)

\* rows of a small table
MaxLen == 2

\* products of a wide table: more than the slider's minimum
NumTitles == 6

\* the slider values tried: the low ones to MaxSlider, the default, the maximum
MaxSlider == 6

SliderValues ==
    {n \in SliderMin..SliderMax : n <= MaxSlider \/ n = SliderDefault \/ n = SliderMax}

TopProductsBy == {"Total Sales", "Quantity Sold"}

\* the number input takes any integer; these are the ones tried
PlanValues == {PlanDefault, 250}

Row(day, title, type, vendor, quantity, cents) ==
    [day |-> day, product_title |-> title, product_type |-> type,
     product_vendor |-> vendor, net_quantity |-> quantity, total_sales |-> cents]

\* the tables of up to MaxLen rows taken from R
Tables(R) == UNION {[1..n -> R] : n \in 0..MaxLen}

\* rows that differ in product (one of them has a blank product_title), type
\* and vendor; "Any" is a type and a vendor
FilterRows ==
    {Row(20240115, t, ty, ve, 100, 1000) :
        t \in {Missing, 1}, ty \in {"Any", "Shirts"}, ve \in {"Any", "Acme"}}

\* rows that differ in product, day, quantity and amount (0.10, 0.20, 1.00, 2.00)
SalesRows ==
    {Row(x[1], t, "Shirts", "Acme", x[2], x[3]) :
        t \in 1..2,
        x \in {<<20240115, 100, 10>>, <<20240115, 200, 20>>,
               <<20240203, 250, 100>>, <<20240203, 500, 200>>}}

\* A wide table: one row for each of NumTitles products, uploaded in ascending
\* or in descending order of the title; the product t sells level[t] units of
\* money and 3 - level[t] tens of pieces.
WideTable(level, ascending) ==
    AsTuple([i \in 1..NumTitles |->
        LET t == IF ascending THEN i ELSE NumTitles + 1 - i
        IN  Row(20240115, t, "Shirts", "Acme", 30 - 10 * level[t], 100 * level[t])])

WideTables == {WideTable(l, a) : l \in [1..NumTitles -> 1..2], a \in BOOLEAN}

\* the tables uploaded in a session: no row, one row, two rows of which each
\* filter keeps one ("Any" is a type of the first and a vendor of the second,
\* whose product_title is blank), and a wide table
SessionTables ==
    {<<>>,
     <<Row(20240115, 1, "Any", "Acme", 250, 10)>>,
     <<Row(20240115, 1, "Any", "Acme", 250, 10),
       Row(20240203, Missing, "Shirts", "Any", 500, 20)>>,
     WideTable([t \in 1..NumTitles |-> 1 + (t % 2)], FALSE)}

\* the slider values tried in a session
SessionSliderValues == {SliderMin, SliderDefault}

(***************************************************************************)
(* State                                                                   *)
(***************************************************************************)

VARIABLES
    uploaded_file,      \* None or <<rows>>
    num_top_products,   \* the slider
    top_products_by,    \* the select box "View top products by"
    type_index,         \* the position picked in "Select Product Type"
    vendor_index,       \* the position picked in "Select Vendor"
    product_index,      \* the position picked in the trend's select box
    stocking_plan,      \* the number input
    quicksort_ties,     \* what the build's default sort does with equal values
    result,             \* the variables and the page of the last execution
    replaced            \* history: some upload replaced an uploaded file

vars == <<uploaded_file, num_top_products, top_products_by, type_index, vendor_index,
          product_index, stocking_plan, quicksort_ties, result, replaced>>

Widgets ==
    [num_top_products |-> num_top_products, top_products_by |-> top_products_by,
     type_index |-> type_index, vendor_index |-> vendor_index,
     product_index |-> product_index, stocking_plan |-> stocking_plan]

\* every widget at the value it is created with
DefaultWidgets ==
    [num_top_products |-> SliderDefault, top_products_by |-> "Total Sales",
     type_index |-> 1, vendor_index |-> 1, product_index |-> 1,
     stocking_plan |-> PlanDefault]

\* the interaction leaves file in the uploader and w in the widgets, and the
\* script runs
Rerun(file, w) ==
    /\ uploaded_file' = file
    /\ num_top_products' = w.num_top_products
    /\ top_products_by' = w.top_products_by
    /\ type_index' = w.type_index
    /\ vendor_index' = w.vendor_index
    /\ product_index' = w.product_index
    /\ stocking_plan' = w.stocking_plan
    /\ result' = Script(file, w, quicksort_ties)
    /\ replaced' = (replaced \/ (file # None /\ uploaded_file # None /\ file # uploaded_file))
    /\ UNCHANGED quicksort_ties

\* A select box keeps the position picked while its options stay the same and
\* returns to the first option when they change.
KeptIndex(old_options, new_options, index) ==
    IF old_options = new_options THEN index ELSE 1

(***************************************************************************)
(* A session: uploads, removal of the file, changes of the widgets         *)
(***************************************************************************)

Init ==
    /\ uploaded_file = None
    /\ num_top_products = DefaultWidgets.num_top_products
    /\ top_products_by = DefaultWidgets.top_products_by
    /\ type_index = DefaultWidgets.type_index
    /\ vendor_index = DefaultWidgets.vendor_index
    /\ product_index = DefaultWidgets.product_index
    /\ stocking_plan = DefaultWidgets.stocking_plan
    /\ quicksort_ties \in {"first", "last"}
    /\ result = Script(None, DefaultWidgets, quicksort_ties)
    /\ replaced = FALSE

\* A variant of Upload that keeps the rows of the file it replaces and puts
\* the new rows after them.
UploadAppends(rows) ==
    /\ uploaded_file # <<rows>>
    /\ uploaded_file' = <<rows>>
    /\ result' = Script(IF uploaded_file = None THEN <<rows>>
                        ELSE <<uploaded_file[1] \o rows>>, Widgets, quicksort_ties)
    /\ replaced' = (replaced \/ uploaded_file # None)
    /\ UNCHANGED <<num_top_products, top_products_by, type_index, vendor_index,
                   product_index, stocking_plan, quicksort_ties>>

\* The uploader takes a file; the select boxes whose options change return to
\* their first option.
Upload(rows) ==
    /\ uploaded_file # <<rows>>
    /\ Rerun(<<rows>>,
             IF uploaded_file = None THEN Widgets
             ELSE [Widgets EXCEPT
                      !.type_index = KeptIndex(result.product_types, ProductTypes(rows), @),
                      !.vendor_index = KeptIndex(result.vendors, VendorOptions(rows), @),
                      !.product_index = KeptIndex(result.products, ProductOptions(rows), @)])

\* without a file the script creates no widget, and a widget that is not
\* created loses its value
RemoveFile ==
    /\ uploaded_file # None
    /\ Rerun(None, DefaultWidgets)

SetNumTopProducts(n) ==
    /\ uploaded_file # None
    /\ n # num_top_products
    /\ Rerun(uploaded_file, [Widgets EXCEPT !.num_top_products = n])

SetTopProductsBy(by) ==
    /\ uploaded_file # None
    /\ by # top_products_by
    /\ Rerun(uploaded_file, [Widgets EXCEPT !.top_products_by = by])

SelectProductType(i) ==
    /\ uploaded_file # None
    /\ i # type_index
    /\ Rerun(uploaded_file, [Widgets EXCEPT !.type_index = i])

SelectVendor(i) ==
    /\ uploaded_file # None
    /\ i # vendor_index
    /\ Rerun(uploaded_file, [Widgets EXCEPT !.vendor_index = i])

SelectProduct(i) ==
    /\ uploaded_file # None
    /\ i # product_index
    /\ Rerun(uploaded_file, [Widgets EXCEPT !.product_index = i])

SetStockingPlan(p) ==
    /\ uploaded_file # None
    /\ p # stocking_plan
    /\ Rerun(uploaded_file, [Widgets EXCEPT !.stocking_plan = p])

\* the positions of the select box whose options are result[options]
Positions(options) == IF options \in DOMAIN result THEN 1..Len(result[options]) ELSE {}

Next ==
    \/ \E rows \in SessionTables : Upload(rows)
    \/ RemoveFile
    \/ \E n \in SessionSliderValues : SetNumTopProducts(n)
    \/ \E by \in TopProductsBy : SetTopProductsBy(by)
    \/ \E i \in Positions("product_types") : SelectProductType(i)
    \/ \E i \in Positions("vendors") : SelectVendor(i)
    \/ \E i \in Positions("products") : SelectProduct(i)
    \/ \E p \in PlanValues : SetStockingPlan(p)

Spec == Init /\ [][Next]_vars

(***************************************************************************)
(* One execution of the script on any input                                *)
(***************************************************************************)

\* nothing executed yet
NotRun == [shown |-> <<>>]

WithFilters(t) ==
    {[file |-> <<t>>, w |-> [DefaultWidgets EXCEPT !.type_index = i, !.vendor_index = j]] :
        i \in 1..Len(ProductTypes(t)), j \in 1..Len(VendorOptions(t))}

WithSales(t) ==
    {[file |-> <<t>>,
      w |-> [DefaultWidgets EXCEPT !.top_products_by = x[1], !.stocking_plan = x[2],
                                   !.product_index = k]] :
        x \in TopProductsBy \X PlanValues, k \in 1..Len(ProductOptions(t))}

WithTop(t) ==
    {[file |-> <<t>>,
      w |-> [DefaultWidgets EXCEPT !.num_top_products = n, !.top_products_by = by]] :
        n \in SliderValues, by \in TopProductsBy}

\* the inputs tried: every small table with every choice of the filters or
\* with every choice of ranking, product and plan, and every wide table with
\* every slider value and ranking
RunInputs ==
    UNION ({WithFilters(t) : t \in Tables(FilterRows)}
           \cup {WithSales(t) : t \in Tables(SalesRows)}
           \cup {WithTop(t) : t \in WideTables})

InitRun ==
    /\ \E in \in RunInputs :
          /\ uploaded_file = in.file
          /\ num_top_products = in.w.num_top_products
          /\ top_products_by = in.w.top_products_by
          /\ type_index = in.w.type_index
          /\ vendor_index = in.w.vendor_index
          /\ product_index = in.w.product_index
          /\ stocking_plan = in.w.stocking_plan
    /\ quicksort_ties \in {"first", "last"}
    /\ result = NotRun
    /\ replaced = FALSE

Execute ==
    /\ result = NotRun
    /\ Rerun(uploaded_file, Widgets)

NextRun == Execute

SpecRun == InitRun /\ [][NextRun]_vars

\* the script has run on an uploaded file
Ran == "sales_data" \in DOMAIN result

(***************************************************************************)
(* Properties                                                              *)
(***************************************************************************)

Range(f) == {f[i] : i \in 1..Len(f)}

\* the table the script loads from the uploaded file
Loaded == ReadCsv(uploaded_file[1])

\* the products of a table
Titles(table) == {table[i].product_title : i \in 1..Len(table)} \ {Missing}

\* The first option of a filter's select box is match-all; each later option
\* is a value of the column.
TypeChosen == type_index > 1

VendorChosen == vendor_index > 1

ChosenType == ProductTypes(Loaded)[type_index]

ChosenVendor == VendorOptions(Loaded)[vendor_index]

\* the record satisfies every active predicate
Satisfies(r) ==
    /\ TypeChosen => r.product_type = ChosenType
    /\ VendorChosen => r.product_vendor = ChosenVendor

\* the records of the loaded table that satisfy every active predicate, in
\* the order of the table
MatchingRows ==
    LET idx == Ascending({i \in 1..Len(Loaded) : Satisfies(Loaded[i])})
    IN  [k \in 1..Len(idx) |-> Loaded[idx[k]]]

\* C1: the filtered table is the subsequence of the records of the loaded
\* table that satisfy every active predicate, in their original order; with
\* match-all chosen for both filters it is the loaded table.
FilterIsSubsequence ==
    Ran => /\ result.filtered_data = MatchingRows
           /\ (~TypeChosen /\ ~VendorChosen) => result.filtered_data = Loaded

\* C2: choosing a value of the product_type (product_vendor) column, the
\* string "Any" included, leaves only records whose product_type
\* (product_vendor) is that value: a predicate is skipped only for match-all.
ChosenValueIsApplied ==
    Ran => /\ TypeChosen =>
                \A r \in Range(result.filtered_data) : r.product_type = ChosenType
           /\ VendorChosen =>
                \A r \in Range(result.filtered_data) : r.product_vendor = ChosenVendor

\* the column the top products are ranked by
TopColumn == IF top_products_by = "Total Sales" THEN "total_sales" ELSE "net_quantity"

\* the full grouped sum of that column over the loaded table
GroupedSums == GroupSum(Loaded, "product_title", TopColumn)

\* C3 as stated: the top-N result has at most n entries, each value is
\* strictly greater than the next, and every entry is an entry of the full
\* grouped sum.
TopStrictlyDescending ==
    Ran => LET top == result.top_products
           IN  /\ Len(top) <= num_top_products
               /\ \A i \in 1..(Len(top) - 1) :
                     ValueLess(TopColumn, top[i + 1][TopColumn], top[i][TopColumn])
               /\ Range(top) \subseteq Range(GroupedSums)

\* C3: the top-N result has at most n entries, no value is less than the
\* next, and every entry is an entry of the full grouped sum.
TopDescending ==
    Ran => LET top == result.top_products
           IN  /\ Len(top) <= num_top_products
               /\ \A i \in 1..(Len(top) - 1) :
                     ~ValueLess(TopColumn, top[i][TopColumn], top[i + 1][TopColumn])
               /\ Range(top) \subseteq Range(GroupedSums)

\* C3 happens: the result is cut to n entries and two neighbours in it have
\* the same value.
TopCutHasEqualNeighbours ==
    /\ Ran
    /\ Len(result.top_products) = num_top_products
    /\ num_top_products < Len(GroupedSums)
    /\ \E i \in 1..(Len(result.top_products) - 1) :
          result.top_products[i][TopColumn] = result.top_products[i + 1][TopColumn]

\* the position of the first record of the product in the uploaded table
FirstRecord(title) ==
    CHOOSE i \in 1..Len(Loaded) :
        /\ Loaded[i].product_title = title
        /\ \A j \in 1..(i - 1) : Loaded[j].product_title # title

\* the position of the product in the top-N result, 0 when it is not in it
Rank(title) ==
    LET top == result.top_products
    IN  IF \E i \in 1..Len(top) : top[i].product_title = title
        THEN CHOOSE i \in 1..Len(top) : top[i].product_title = title
        ELSE 0

\* the pairs of different products with equal summed value
TiedProducts ==
    {p \in Titles(Loaded) \X Titles(Loaded) :
        /\ p[1] # p[2]
        /\ \E a \in Range(GroupedSums), b \in Range(GroupedSums) :
              /\ a.product_title = p[1]
              /\ b.product_title = p[2]
              /\ a[TopColumn] = b[TopColumn]}

\* wherever b has a place, a has one before it
RankedBefore(a, b) == Rank(b) # 0 => (Rank(a) # 0 /\ Rank(a) < Rank(b))

\* C4 as stated: of two products with equal summed value the one whose first
\* record is earlier in the uploaded table is ranked first, and is the one
\* kept when only one fits.
TiesByInputOrder ==
    Ran => \A p \in TiedProducts :
              FirstRecord(p[1]) < FirstRecord(p[2]) => RankedBefore(p[1], p[2])

\* C4: when n is less than the number of products, of two products with equal
\* summed value the one with the lesser title is ranked first, and is the one
\* kept when only one fits, whatever the order of the upload; otherwise every
\* product is in the result (in an order of the equal ones that depends on
\* the build).
TiesByTitleWhenCut ==
    Ran => IF num_top_products < Len(GroupedSums)
           THEN \A p \in TiedProducts : p[1] < p[2] => RankedBefore(p[1], p[2])
           ELSE \A t \in Titles(Loaded) : Rank(t) # 0

\* C4 happens: of two products with equal sums the one uploaded later is kept
\* and the one uploaded first is cut.
TieKeepsLaterUpload ==
    /\ Ran
    /\ num_top_products < Len(GroupedSums)
    /\ \E p \in TiedProducts :
          /\ FirstRecord(p[2]) < FirstRecord(p[1])
          /\ Rank(p[1]) # 0
          /\ Rank(p[2]) = 0

\* the sum of float64 values without any rounding
RECURSIVE ExactSum(_, _)
ExactSum(xs, n) == IF n = 0 THEN Zero ELSE XAdd(ExactSum(xs, n - 1), xs[n])

ExactTotal(table) == ExactSum(Column(table, "total_sales"), Len(table))

\* each product of the filtered table is once in the sales by product
OncePerProduct ==
    /\ Titles(result.product_sales) = Titles(result.filtered_data)
    /\ Len(result.product_sales) = Cardinality(Titles(result.filtered_data))

\* C5: the per-product sums of total_sales add up to exactly the
\* sum of total_sales over the records of the filtered table, and each
\* product of it appears exactly once.
ProductSalesAddUp ==
    Ran => /\ OncePerProduct
           /\ ExactTotal(result.product_sales) = ExactTotal(result.filtered_data)

\* the sum of the product's net_quantity over the loaded table
QuantitySold(title) ==
    LET xs == Column(Rows(Loaded, "product_title", title), "net_quantity")
    IN  ISum(xs, Len(xs))

\* C6 as stated: every product has a stocking row with velocity = sum / 90 and
\* predicted demand = velocity * 30, whose status is Understocked exactly when
\* 30 * sum > 90 * P and Well-stocked otherwise, P being the one plan value
\* entered.
StockingStatus ==
    Ran => \A t \in Titles(Loaded) :
              \E i \in 1..Len(result.mps_data) :
                  LET row == result.mps_data[i]
                  IN  /\ row.product_title = t
                      /\ row.sales_velocity = FDiv(QuantitySold(t), 90)
                      /\ row.predicted_monthly_demand = FMul(row.sales_velocity, 30)
                      /\ row.stocking_plan = stocking_plan
                      /\ row.status = IF 30 * QuantitySold(t) > 90 * stocking_plan
                                      THEN "Understocked" ELSE "Well-stocked"

\* C7 as stated: when the filters leave no record the sales-by-product
\* section shows the no-data message and no chart; when they leave a record
\* it shows the chart and no message.
SalesSectionFollowsRecords ==
    Ran => IF result.filtered_data = <<>>
           THEN /\ "no_sales_message" \in Range(result.shown)
                /\ "fig_product_sales" \notin Range(result.shown)
           ELSE /\ "fig_product_sales" \in Range(result.shown)
                /\ "no_sales_message" \notin Range(result.shown)

\* C7: when the filters leave no record with a product title the
\* sales-by-product section shows the no-data message and no chart; when they
\* leave a record with a product title it shows the chart and no message.
SalesSectionFollowsProducts ==
    Ran => IF Titles(result.filtered_data) = {}
           THEN /\ "no_sales_message" \in Range(result.shown)
                /\ "fig_product_sales" \notin Range(result.shown)
           ELSE /\ "fig_product_sales" \in Range(result.shown)
                /\ "no_sales_message" \notin Range(result.shown)

\* C7 happens: after an upload and a change of the type filter only records
\* without a product title are left, and the message is shown.
NoProductLeftByFilters ==
    /\ Ran
    /\ TypeChosen
    /\ result.filtered_data # <<>>
    /\ Titles(result.filtered_data) = {}
    /\ "no_sales_message" \in Range(result.shown)

\* C8: without a file the script leaves no variable and the page holds, after
\* the title, the description and the uploader, the prompt alone; with a file
\* the prompt is not on the page.
PromptOnlyWithoutFile ==
    IF uploaded_file = None
    THEN /\ DOMAIN result = {"shown"}
         /\ Range(result.shown) \ {"title", "description", "file_uploader"} = {"upload_prompt"}
    ELSE "upload_prompt" \notin Range(result.shown)

\* C8 happens: the file is taken out of the uploader after a session of
\* uploads.
FileRemoved == uploaded_file = None /\ replaced

\* no output holds a record, a product, a type, a vendor, a month or a day
\* that is not in the loaded table
OutputsFromLoaded ==
    /\ Range(result.sales_data) \subseteq Range(Loaded)
    /\ Range(result.filtered_data) \subseteq Range(Loaded)
    /\ Titles(result.top_products) \subseteq Titles(Loaded)
    /\ Titles(result.product_sales) \subseteq Titles(Loaded)
    /\ Titles(result.mps_data) \subseteq Titles(Loaded)
    /\ Range(result.products) \subseteq Range(Column(Loaded, "product_title"))
    /\ Range(result.product_types) \subseteq {"Any"} \cup Range(Column(Loaded, "product_type"))
    /\ Range(result.vendors) \subseteq {"Any"} \cup Range(Column(Loaded, "product_vendor"))
    /\ Range(Column(result.monthly_sales, "month")) \subseteq Range(Column(Loaded, "month"))
    /\ Range(Column(result.product_trend_data, "day")) \subseteq Range(Column(Loaded, "day"))

\* C9: what is displayed is what the script computes from the file in the
\* uploader and the values of the widgets, whatever came before, and holds
\* nothing that is not in that file.
OutputsOfCurrentInput ==
    /\ result = Script(uploaded_file, Widgets, quicksort_ties)
    /\ Ran => OutputsFromLoaded

\* C9 happens: an upload has replaced a file, and widgets have been changed.
AfterReplacedFile ==
    /\ Ran
    /\ replaced
    /\ stocking_plan # PlanDefault
    /\ product_index > 1

\* a step that changes a filter on the same file
FilterChange ==
    /\ Ran
    /\ uploaded_file' = uploaded_file
    /\ type_index' # type_index \/ vendor_index' # vendor_index

\* C10: a change of a filter leaves the loaded table, the monthly sales, the
\* top-N result, the products offered for the trend, the trend and the
\* stocking table as they are, and the table of the script is the loaded one
\* under any filter.
FilterLeavesTheRest ==
    /\ [](Ran => result.sales_data = Loaded)
    /\ [][FilterChange =>
            /\ result'.sales_data = result.sales_data
            /\ result'.monthly_sales = result.monthly_sales
            /\ result'.top_products = result.top_products
            /\ result'.products = result.products
            /\ result'.product_trend_data = result.product_trend_data
            /\ result'.mps_data = result.mps_data]_vars

\* C10 happens: a filter is set and leaves fewer records than are loaded.
FilterNarrows ==
    /\ Ran
    /\ TypeChosen \/ VendorChosen
    /\ Len(result.filtered_data) < Len(result.sales_data)

====
